---- MODULE Spec2Model ----
(***************************************************************************)
(* Model of the Solana monitoring agent: the catchup parser               *)
(* (src/src/solana_client.py), the metrics collector and its Prometheus    *)
(* registry (src/src/metrics_collector.py), the push client               *)
(* (src/src/push_client.py), the exposition server                        *)
(* (src/src/http_server.py) and the two threads of src/agent.py.          *)
(***************************************************************************)
EXTENDS Integers, Sequences, FiniteSets, TLC

(***************************************************************************)
(* Bounds of the model.                                                    *)
(***************************************************************************)
\* collector cycles (update_metrics calls) per behaviour, the one made at startup
\* included, where requests are served meanwhile
MaxCycles == 2
\* the same, for the collection loop taken alone
MaxLoopCycles == 3
\* largest slot number (and largest "behind by" count) in a catchup output
MaxSlot == 1
\* largest PUSH_RETRY_ATTEMPTS
MaxRetry == 3
\* most fragments in a catchup output given to the parser taken alone
MaxTokens == 3

\* max(0, reference_slot - local_slot) without the clamp
Max_unclamped(a, b) == b

Max(a, b) == IF a >= b THEN a ELSE b

\* Python's None / an Optional value, as a set of at most one element
None == {}
Some(v) == {v}
The(o) == CHOOSE v \in o : TRUE

(***************************************************************************)
(* solana_client.py                                                        *)
(*                                                                         *)
(* The stdout of `solana catchup` is a sequence of fragments; each         *)
(* fragment is one piece of text one of the regular expressions of         *)
(* get_catchup_status can match, or text none of them matches.             *)
(*   compact    "(us:a them:b)"                                            *)
(*   our        "Our validator: slot=a"                                    *)
(*   cluster    "Cluster: slot=a"                                          *)
(*   processed  "Processed slot a"                                         *)
(*   behind     "behind by a slots"                                        *)
(*   OUR        "OUR VALIDATOR: SLOT=a", or any other casing than `our`    *)
(*   CLUSTER    "CLUSTER: SLOT=a", or any other casing than `cluster`      *)
(*   junk       anything else                                              *)
(***************************************************************************)
Slots == 0..MaxSlot

Fragments ==
    {[k |-> "compact", a |-> x, b |-> y] : x \in Slots, y \in Slots}
    \cup {[k |-> kind, a |-> x, b |-> 0] :
            kind \in {"our", "cluster", "processed", "behind", "OUR", "CLUSTER"},
            x \in Slots}
    \cup {[k |-> "junk", a |-> 0, b |-> 0]}

\* every stdout of at most n fragments
Texts(n) == UNION {[1..m -> Fragments] : m \in 0..n}

\* the pattern fragment f is a match of: the two label patterns are searched
\* with re.IGNORECASE, the others as written
MatchedBy(f) ==
    IF f.k = "OUR" THEN "our" ELSE IF f.k = "CLUSTER" THEN "cluster" ELSE f.k

\* re.search without re.IGNORECASE
Matches_case_sensitive(k, output) == \E i \in 1..Len(output) : output[i].k = k

\* re.search(pattern, output): whether the pattern of kind k matches
Matches(k, output) == \E i \in 1..Len(output) : MatchedBy(output[i]) = k

\* a search that returns the rightmost match
Search_rightmost(k, output) ==
    output[CHOOSE i \in 1..Len(output) :
              /\ MatchedBy(output[i]) = k
              /\ \A j \in (i + 1)..Len(output) : MatchedBy(output[j]) # k]

\* re.search(pattern, output): the leftmost match of the pattern of kind k
Search(k, output) ==
    output[CHOOSE i \in 1..Len(output) :
              /\ MatchedBy(output[i]) = k
              /\ \A j \in 1..(i - 1) : MatchedBy(output[j]) # k]

CatchupResult(l, r, g) == [local_slot |-> l, reference_slot |-> r, slot_lag |-> g]

\* subprocess.run of `solana catchup`: rc is "zero", "nonzero" (returncode != 0),
\* "timeout" (TimeoutExpired) or "oserror" (any other exception)
CatchupRuns(texts) ==
    {[rc |-> "zero", stdout |-> o] : o \in texts}
    \cup {[rc |-> "nonzero", stdout |-> o] : o \in texts}
    \cup {[rc |-> c, stdout |-> <<>>] : c \in {"timeout", "oserror"}}

\* get_catchup_status without its test of result.returncode
get_catchup_status_any_exit(run) ==
    IF run.rc \in {"timeout", "oserror"} THEN None
    ELSE LET output == run.stdout IN
         IF Matches("compact", output)
         THEN LET m == Search("compact", output) IN
              Some(CatchupResult(m.a, m.b, Max(0, m.b - m.a)))
         ELSE IF Matches("our", output) /\ Matches("cluster", output)
         THEN LET l == Search("our", output).a
                  r == Search("cluster", output).a IN
              Some(CatchupResult(l, r, Max(0, r - l)))
         ELSE IF Matches("processed", output)
         THEN LET l == Search("processed", output).a IN
              IF Matches("behind", output)
              THEN LET g == Search("behind", output).a IN
                   Some(CatchupResult(l, l + g, g))
              ELSE Some(CatchupResult(l, l, 0))
         ELSE None

\* get_catchup_status that reports slot 0 for a text it cannot parse
get_catchup_status_zero_default(run) ==
    IF run.rc # "zero" THEN None
    ELSE LET output == run.stdout IN
         IF Matches("compact", output)
         THEN LET m == Search("compact", output) IN
              Some(CatchupResult(m.a, m.b, Max(0, m.b - m.a)))
         ELSE IF Matches("our", output) /\ Matches("cluster", output)
         THEN LET l == Search("our", output).a
                  r == Search("cluster", output).a IN
              Some(CatchupResult(l, r, Max(0, r - l)))
         ELSE IF Matches("processed", output)
         THEN LET l == Search("processed", output).a IN
              IF Matches("behind", output)
              THEN LET g == Search("behind", output).a IN
                   Some(CatchupResult(l, l + g, g))
              ELSE Some(CatchupResult(l, l, 0))
         ELSE Some(CatchupResult(0, 0, 0))

\* get_catchup_status that tries the detailed format before the compact one
get_catchup_status_detailed_first(run) ==
    IF run.rc # "zero" THEN None
    ELSE LET output == run.stdout IN
         IF Matches("our", output) /\ Matches("cluster", output)
         THEN LET l == Search("our", output).a
                  r == Search("cluster", output).a IN
              Some(CatchupResult(l, r, Max(0, r - l)))
         ELSE IF Matches("compact", output)
         THEN LET m == Search("compact", output) IN
              Some(CatchupResult(m.a, m.b, Max(0, m.b - m.a)))
         ELSE IF Matches("processed", output)
         THEN LET l == Search("processed", output).a IN
              IF Matches("behind", output)
              THEN LET g == Search("behind", output).a IN
                   Some(CatchupResult(l, l + g, g))
              ELSE Some(CatchupResult(l, l, 0))
         ELSE None

\* get_catchup_status without its search for `behind by (\d+) slots`
get_catchup_status_no_behind(run) ==
    IF run.rc # "zero" THEN None
    ELSE LET output == run.stdout IN
         IF Matches("compact", output)
         THEN LET m == Search("compact", output) IN
              Some(CatchupResult(m.a, m.b, Max(0, m.b - m.a)))
         ELSE IF Matches("our", output) /\ Matches("cluster", output)
         THEN LET l == Search("our", output).a
                  r == Search("cluster", output).a IN
              Some(CatchupResult(l, r, Max(0, r - l)))
         ELSE IF Matches("processed", output)
         THEN LET l == Search("processed", output).a IN
              Some(CatchupResult(l, l, 0))
         ELSE None

get_catchup_status(run) ==
    IF run.rc # "zero" THEN None
    ELSE LET output == run.stdout IN
         IF Matches("compact", output)
         THEN LET m == Search("compact", output) IN
              Some(CatchupResult(m.a, m.b, Max(0, m.b - m.a)))
         ELSE IF Matches("our", output) /\ Matches("cluster", output)
         THEN LET l == Search("our", output).a
                  r == Search("cluster", output).a IN
              Some(CatchupResult(l, r, Max(0, r - l)))
         ELSE IF Matches("processed", output)
         THEN LET l == Search("processed", output).a IN
              IF Matches("behind", output)
              THEN LET g == Search("behind", output).a IN
                   Some(CatchupResult(l, l + g, g))
              ELSE Some(CatchupResult(l, l, 0))
         ELSE None

\* subprocess.run of `solana --version`
VersionRuns(versions) ==
    {[rc |-> "zero", stdout |-> v] : v \in versions}
    \cup {[rc |-> c, stdout |-> ""] : c \in {"nonzero", "oserror"}}

get_node_version(run) == IF run.rc = "zero" THEN Some(run.stdout) ELSE None

\* subprocess.run of `solana cluster-version`: its returncode, or an exception
HealthRuns == {"zero", "nonzero", "oserror"}

is_healthy_probe(rc) == rc = "zero"

\* Python truthiness of an Optional[str]
Truthy(o) == o # None /\ o # Some("")


(***************************************************************************)
(* State                                                                   *)
(***************************************************************************)
\* main() of agent.py and the thread running metrics_update_loop
Threads == {"main", "loop"}

VARIABLES
    api_url,          \* PushClient.api_url is not empty
    api_key,          \* PushClient.api_key is not empty
    enabled,          \* PushClient.enabled
    retry_attempts,   \* PushClient.retry_attempts
    registry,         \* the value of each metric of the CollectorRegistry
    stamp,            \* per metric, the number of the cycle that last set it
    now,              \* time.time()
    cycles,           \* update_metrics calls started so far
    pc,               \* per thread, the statement it is at
    source,           \* update_metrics: what `solana catchup` did in this cycle
    before,           \* update_metrics: the registry as the cycle found it
    catchup_status,   \* update_metrics: its local catchup_status
    is_healthy,       \* update_metrics: its local is_healthy
    version,          \* update_metrics: its local version
    ret,              \* update_metrics: the value it returned
    metrics_data,     \* the dict get_metrics_dict returned
    attempt,          \* push_metrics: its loop variable
    responses,        \* push_metrics: the answer to each attempt so far
    sleeps,           \* push_metrics: the duration of each time.sleep so far
    pushRet,          \* push_metrics: the value it returned
    listening,        \* MetricsServer.server is serving
    obs,              \* generate_latest: the metric values read so far
    obsStamp,         \* per value of obs, the cycle that had set it
    history           \* what the calls made so far have done (see History)

pushClient == <<api_url, api_key, enabled, retry_attempts>>
collector == <<registry, stamp>>
updateLocals == <<source, before, catchup_status, is_healthy, version, ret>>
pushLocals == <<attempt, responses, sleeps, pushRet>>
server == <<listening, obs, obsStamp>>
vars == <<api_url, api_key, enabled, retry_attempts, registry, stamp, now, cycles, pc,
          source, before, catchup_status, is_healthy, version, ret, metrics_data,
          attempt, responses, sleeps, pushRet,
          listening, obs, obsStamp, history>>

\* a labelled Gauge no labels(...) call has created a child of: it has no sample
Absent == -1

\* the metrics in the order MetricsCollector.__init__ registers them, which is
\* the order generate_latest reads them in
GaugeOrder == <<"slot_current", "slot_cluster", "slot_lag", "node_health",
                "last_update", "rpc_error", "node_info">>

\* PushClient.__init__: the environment is ENABLE_PUSH_MODE = 'true' (flag), a
\* non-empty MONITORING_API_URL (url), a non-empty MONITORING_API_KEY (key)
PushEnvs == [flag : BOOLEAN, url : BOOLEAN, key : BOOLEAN]

\* PushClient.__init__ without its test of api_key
PushClientEnabled_no_key_test(env) ==
    IF env.flag
    THEN IF ~env.url THEN FALSE ELSE TRUE
    ELSE FALSE

PushClientEnabled(env) ==
    IF env.flag
    THEN IF ~env.url THEN FALSE
         ELSE IF ~env.key THEN FALSE
         ELSE TRUE
    ELSE FALSE

\* the state main() is in when it reaches "Performing initial metrics collection"
InitWith(envs, retries) ==
    /\ \E env \in envs :
        /\ api_url = env.url
        /\ api_key = env.key
        /\ enabled = PushClientEnabled(env)
    /\ retry_attempts \in retries
    /\ registry = [slot_current |-> Absent, slot_cluster |-> Absent,
                   slot_lag |-> Absent, node_health |-> Absent,
                   last_update |-> Absent, rpc_error |-> Absent,
                   node_info |-> None]
    /\ stamp = [f \in DOMAIN registry |-> 0]
    /\ now = 0
    /\ cycles = 0
    /\ pc = [main |-> "catchup", loop |-> "not_started"]
    /\ source = [t \in Threads |-> None]
    /\ before = [t \in Threads |-> None]
    /\ catchup_status = [t \in Threads |-> None]
    /\ is_healthy = [t \in Threads |-> None]
    /\ version = [t \in Threads |-> None]
    /\ ret = [t \in Threads |-> None]
    /\ metrics_data = [t \in Threads |-> None]
    /\ attempt = [t \in Threads |-> 0]
    /\ responses = [t \in Threads |-> <<>>]
    /\ sleeps = [t \in Threads |-> <<>>]
    /\ pushRet = [t \in Threads |-> None]
    /\ listening = FALSE
    /\ obs = <<>>
    /\ obsStamp = <<>>
    /\ history = [success_time |-> Absent, version |-> None,
                  push_calls |-> 0, push_returns |-> 0]

\* history records, of the calls made so far:
\*   success_time   time.time() of the latest update_metrics that returned True
\*   version        the latest non-empty answer of get_node_version to update_metrics
\*   push_calls     the calls of push_metrics made
\*   push_returns   the calls of push_metrics that have returned
\* Gauge.set / Info.info on metric f, made by the cycle in progress
SetMetric(f, v) ==
    /\ registry' = [registry EXCEPT ![f] = v]
    /\ stamp' = [stamp EXCEPT ![f] = cycles]

(***************************************************************************)
(* MetricsCollector.update_metrics, run by thread t. Every solana_client   *)
(* call catches Exception itself, so the except clause of update_metrics   *)
(* has nothing to catch and no step takes it.                              *)
(***************************************************************************)
update_catchup(t, runs, bound) ==
    /\ pc[t] = "catchup"
    /\ cycles < bound
    /\ \E run \in runs :
        /\ source' = [source EXCEPT ![t] = Some(run)]
        /\ catchup_status' = [catchup_status EXCEPT ![t] = get_catchup_status(run)]
        /\ pc' = [pc EXCEPT ![t] = IF get_catchup_status(run) = None
                                   THEN "err_rpc" ELSE "cur"]
    /\ before' = [before EXCEPT ![t] = Some(registry)]
    /\ cycles' = cycles + 1
    /\ now' = now + 1
    /\ UNCHANGED <<pushClient, history, collector, is_healthy, version, ret,
                   metrics_data, pushLocals, server>>

update_err_rpc(t) ==
    /\ pc[t] = "err_rpc"
    /\ SetMetric("rpc_error", 1)
    /\ pc' = [pc EXCEPT ![t] = "err_health"]
    /\ UNCHANGED <<pushClient, history, now, cycles, updateLocals, metrics_data, pushLocals, server>>

\* update_metrics without line 96
update_err_health_skipped(t) ==
    /\ pc[t] = "err_health"
    /\ ret' = [ret EXCEPT ![t] = Some(FALSE)]
    /\ pc' = [pc EXCEPT ![t] = "push_check"]
    /\ UNCHANGED <<pushClient, history, collector, now, cycles, source, before,
                   catchup_status, is_healthy, version, metrics_data, pushLocals, server>>

\* update_metrics that sets metrics_last_update before `return False`
update_err_health_sets_time(t) ==
    /\ pc[t] = "err_health"
    /\ registry' = [registry EXCEPT !.node_health = 0, !.last_update = now]
    /\ stamp' = [stamp EXCEPT !.node_health = cycles, !.last_update = cycles]
    /\ ret' = [ret EXCEPT ![t] = Some(FALSE)]
    /\ pc' = [pc EXCEPT ![t] = "push_check"]
    /\ UNCHANGED <<pushClient, history, now, cycles, source, before, catchup_status,
                   is_healthy, version, metrics_data, pushLocals, server>>

update_err_health(t) ==
    /\ pc[t] = "err_health"
    /\ SetMetric("node_health", 0)
    /\ ret' = [ret EXCEPT ![t] = Some(FALSE)]
    /\ pc' = [pc EXCEPT ![t] = "push_check"]
    /\ UNCHANGED <<pushClient, history, now, cycles, source, before, catchup_status,
                   is_healthy, version, metrics_data, pushLocals, server>>

update_slot_current(t) ==
    /\ pc[t] = "cur"
    /\ SetMetric("slot_current", The(catchup_status[t]).local_slot)
    /\ pc' = [pc EXCEPT ![t] = "cluster"]
    /\ UNCHANGED <<pushClient, history, now, cycles, updateLocals, metrics_data, pushLocals, server>>

update_slot_cluster(t) ==
    /\ pc[t] = "cluster"
    /\ SetMetric("slot_cluster", The(catchup_status[t]).reference_slot)
    /\ pc' = [pc EXCEPT ![t] = "lag"]
    /\ UNCHANGED <<pushClient, history, now, cycles, updateLocals, metrics_data, pushLocals, server>>

update_slot_lag(t) ==
    /\ pc[t] = "lag"
    /\ SetMetric("slot_lag", The(catchup_status[t]).slot_lag)
    /\ pc' = [pc EXCEPT ![t] = "rpc"]
    /\ UNCHANGED <<pushClient, history, now, cycles, updateLocals, metrics_data, pushLocals, server>>

update_rpc_error(t) ==
    /\ pc[t] = "rpc"
    /\ SetMetric("rpc_error", 0)
    /\ pc' = [pc EXCEPT ![t] = "health"]
    /\ UNCHANGED <<pushClient, history, now, cycles, updateLocals, metrics_data, pushLocals, server>>

update_node_health(t) ==
    /\ pc[t] = "health"
    /\ \E rc \in HealthRuns :
        /\ is_healthy' = [is_healthy EXCEPT ![t] = Some(is_healthy_probe(rc))]
        /\ SetMetric("node_health", IF is_healthy_probe(rc) THEN 1 ELSE 0)
    /\ pc' = [pc EXCEPT ![t] = "time"]
    /\ UNCHANGED <<pushClient, history, now, cycles, source, before, catchup_status,
                   version, ret, metrics_data, pushLocals, server>>

\* update_metrics without line 110
update_last_update_skipped(t) ==
    /\ pc[t] = "time"
    /\ pc' = [pc EXCEPT ![t] = "info"]
    /\ UNCHANGED <<pushClient, history, collector, now, cycles, updateLocals, metrics_data,
                   pushLocals, server>>

update_last_update(t) ==
    /\ pc[t] = "time"
    /\ SetMetric("last_update", now)
    /\ pc' = [pc EXCEPT ![t] = "info"]
    /\ UNCHANGED <<pushClient, history, now, cycles, updateLocals, metrics_data, pushLocals, server>>

\* update_metrics that drops the node_info labels when it gets no version
update_node_info_drops_version(t, versions) ==
    /\ pc[t] = "info"
    /\ \E run \in VersionRuns(versions) :
        /\ version' = [version EXCEPT ![t] = Some(get_node_version(run))]
        /\ IF Truthy(get_node_version(run))
           THEN /\ SetMetric("node_info", get_node_version(run))
                /\ history' = [history EXCEPT !.success_time = now,
                                              !.version = get_node_version(run)]
           ELSE /\ SetMetric("node_info", None)
                /\ history' = [history EXCEPT !.success_time = now]
    /\ ret' = [ret EXCEPT ![t] = Some(TRUE)]
    /\ pc' = [pc EXCEPT ![t] = "push_check"]
    /\ UNCHANGED <<pushClient, now, cycles, source, before, catchup_status,
                   is_healthy, metrics_data, pushLocals, server>>

update_node_info(t, versions) ==
    /\ pc[t] = "info"
    /\ \E run \in VersionRuns(versions) :
        /\ version' = [version EXCEPT ![t] = Some(get_node_version(run))]
        /\ IF Truthy(get_node_version(run))
           THEN /\ SetMetric("node_info", get_node_version(run))
                /\ history' = [history EXCEPT !.success_time = now,
                                              !.version = get_node_version(run)]
           ELSE /\ UNCHANGED collector
                /\ history' = [history EXCEPT !.success_time = now]
    /\ ret' = [ret EXCEPT ![t] = Some(TRUE)]
    /\ pc' = [pc EXCEPT ![t] = "push_check"]
    /\ UNCHANGED <<pushClient, now, cycles, source, before, catchup_status,
                   is_healthy, metrics_data, pushLocals, server>>


(***************************************************************************)
(* MetricsCollector.get_metrics_dict, run by thread t: it queries the node *)
(* again and builds the dict from those answers. Absent keys of the dict   *)
(* are Absent / None here.                                                 *)
(***************************************************************************)
MetricsDict(status, healthy, node_version, time) ==
    [solana_node_health |-> IF healthy THEN 1 ELSE 0,
     solana_metrics_last_update_timestamp |-> time,
     solana_slot_current |-> IF status # None THEN The(status).local_slot ELSE Absent,
     solana_slot_cluster |-> IF status # None THEN The(status).reference_slot ELSE Absent,
     solana_slot_lag |-> IF status # None THEN The(status).slot_lag ELSE Absent,
     solana_rpc_error |-> IF status # None THEN 0 ELSE 1,
     solana_version |-> IF Truthy(node_version) THEN node_version ELSE None]

\* get_metrics_dict also setting the last_update gauge to the time it reports
get_metrics_dict_sets_gauge(t, runs, versions) ==
    /\ pc[t] = "dict"
    /\ \E run \in runs, rc \in HealthRuns, vrun \in VersionRuns(versions) :
        metrics_data' = [metrics_data EXCEPT ![t] =
            Some(MetricsDict(get_catchup_status(run), is_healthy_probe(rc),
                             get_node_version(vrun), now + 1))]
    /\ registry' = [registry EXCEPT !["last_update"] = now + 1]
    /\ now' = now + 1
    /\ pc' = [pc EXCEPT ![t] = "push"]
    /\ UNCHANGED <<pushClient, history, stamp, cycles, updateLocals, pushLocals, server>>

get_metrics_dict(t, runs, versions) ==
    /\ pc[t] = "dict"
    /\ \E run \in runs, rc \in HealthRuns, vrun \in VersionRuns(versions) :
        metrics_data' = [metrics_data EXCEPT ![t] =
            Some(MetricsDict(get_catchup_status(run), is_healthy_probe(rc),
                             get_node_version(vrun), now + 1))]
    /\ now' = now + 1
    /\ pc' = [pc EXCEPT ![t] = "push"]
    /\ UNCHANGED <<pushClient, history, collector, cycles, updateLocals, pushLocals, server>>

(***************************************************************************)
(* PushClient.push_metrics, run by thread t. An attempt is answered with   *)
(*   "200"        a response of status 200                                 *)
(*   "204"        a response of another status urlopen does not raise for  *)
(*   "401" "403" "500"   an HTTPError of that code                         *)
(*   "URLError"   a network error                                          *)
(*   "Exception"  any other exception                                      *)
(***************************************************************************)
Responses == {"200", "204", "401", "403", "500", "URLError", "Exception"}

\* lines 48-62: the enabled check, the payload, and range(1, retry_attempts + 1)
\* push_metrics with a loop that makes its first attempt before testing the count
push_enter_at_least_once(t) ==
    /\ pc[t] = "push"
    /\ IF enabled
       THEN /\ attempt' = [attempt EXCEPT ![t] = 1]
            /\ pc' = [pc EXCEPT ![t] = "send"]
            /\ UNCHANGED pushRet
       ELSE /\ pushRet' = [pushRet EXCEPT ![t] = Some(FALSE)]
            /\ pc' = [pc EXCEPT ![t] = "pushed"]
            /\ UNCHANGED attempt
    /\ history' = [history EXCEPT !.push_calls = @ + 1]
    /\ UNCHANGED <<pushClient, collector, now, cycles, updateLocals, metrics_data,
                   responses, sleeps, server>>

push_enter(t) ==
    /\ pc[t] = "push"
    /\ IF enabled /\ retry_attempts >= 1
       THEN /\ attempt' = [attempt EXCEPT ![t] = 1]
            /\ pc' = [pc EXCEPT ![t] = "send"]
            /\ UNCHANGED pushRet
       ELSE /\ pushRet' = [pushRet EXCEPT ![t] = Some(FALSE)]
            /\ pc' = [pc EXCEPT ![t] = "pushed"]
            /\ UNCHANGED attempt
    /\ history' = [history EXCEPT !.push_calls = @ + 1]
    /\ UNCHANGED <<pushClient, collector, now, cycles, updateLocals, metrics_data,
                   responses, sleeps, server>>

\* push_metrics with `attempt <= self.retry_attempts` before the backoff
push_send_off_by_one(t, resps) ==
    /\ pc[t] = "send"
    /\ \E r \in resps :
        /\ responses' = [responses EXCEPT ![t] = Append(@, r)]
        /\ IF r = "200"
           THEN /\ pushRet' = [pushRet EXCEPT ![t] = Some(TRUE)]
                /\ pc' = [pc EXCEPT ![t] = "pushed"]
           ELSE IF r = "401"
           THEN /\ pushRet' = [pushRet EXCEPT ![t] = Some(FALSE)]
                /\ pc' = [pc EXCEPT ![t] = "pushed"]
           ELSE IF attempt[t] <= retry_attempts
           THEN /\ pc' = [pc EXCEPT ![t] = "backoff"]
                /\ UNCHANGED pushRet
           ELSE /\ pushRet' = [pushRet EXCEPT ![t] = Some(FALSE)]
                /\ pc' = [pc EXCEPT ![t] = "pushed"]
    /\ UNCHANGED <<pushClient, history, collector, now, cycles, updateLocals, metrics_data,
                   attempt, sleeps, server>>

\* push_metrics taking every response urlopen returns for a success
push_send_any_status(t, resps) ==
    /\ pc[t] = "send"
    /\ \E r \in resps :
        /\ responses' = [responses EXCEPT ![t] = Append(@, r)]
        /\ IF r \in {"200", "204"}
           THEN /\ pushRet' = [pushRet EXCEPT ![t] = Some(TRUE)]
                /\ pc' = [pc EXCEPT ![t] = "pushed"]
           ELSE IF r = "401"
           THEN /\ pushRet' = [pushRet EXCEPT ![t] = Some(FALSE)]
                /\ pc' = [pc EXCEPT ![t] = "pushed"]
           ELSE IF attempt[t] < retry_attempts
           THEN /\ pc' = [pc EXCEPT ![t] = "backoff"]
                /\ UNCHANGED pushRet
           ELSE /\ pushRet' = [pushRet EXCEPT ![t] = Some(FALSE)]
                /\ pc' = [pc EXCEPT ![t] = "pushed"]
    /\ UNCHANGED <<pushClient, history, collector, now, cycles, updateLocals, metrics_data,
                   attempt, sleeps, server>>

\* lines 63-100: one attempt, up to the test of `attempt < self.retry_attempts`
push_send(t, resps) ==
    /\ pc[t] = "send"
    /\ \E r \in resps :
        /\ responses' = [responses EXCEPT ![t] = Append(@, r)]
        /\ IF r = "200"
           THEN /\ pushRet' = [pushRet EXCEPT ![t] = Some(TRUE)]
                /\ pc' = [pc EXCEPT ![t] = "pushed"]
           ELSE IF r = "401"
           THEN /\ pushRet' = [pushRet EXCEPT ![t] = Some(FALSE)]
                /\ pc' = [pc EXCEPT ![t] = "pushed"]
           ELSE IF attempt[t] < retry_attempts
           THEN /\ pc' = [pc EXCEPT ![t] = "backoff"]
                /\ UNCHANGED pushRet
           ELSE /\ pushRet' = [pushRet EXCEPT ![t] = Some(FALSE)]
                /\ pc' = [pc EXCEPT ![t] = "pushed"]
    /\ UNCHANGED <<pushClient, history, collector, now, cycles, updateLocals, metrics_data,
                   attempt, sleeps, server>>

\* lines 101-103 and the next turn of the for loop
push_backoff(t) ==
    /\ pc[t] = "backoff"
    /\ sleeps' = [sleeps EXCEPT ![t] = Append(@, 2 ^ attempt[t])]
    /\ attempt' = [attempt EXCEPT ![t] = @ + 1]
    /\ pc' = [pc EXCEPT ![t] = "send"]
    /\ UNCHANGED <<pushClient, history, collector, now, cycles, updateLocals, metrics_data,
                   responses, pushRet, server>>

(***************************************************************************)
(* agent.py: main() and metrics_update_loop. Both run update_metrics and   *)
(* then, if push_client.enabled, get_metrics_dict and push_metrics.        *)
(***************************************************************************)
\* the statement after the push: main starts the thread, the loop sleeps
AfterPush(t) == IF t = "main" THEN "start_thread" ELSE "sleep"

\* a caller that pushes only after an update_metrics that returned True
push_check_on_success_only(t) ==
    /\ pc[t] = "push_check"
    /\ pc' = [pc EXCEPT ![t] = IF enabled /\ ret[t] = Some(TRUE)
                               THEN "dict" ELSE AfterPush(t)]
    /\ source' = [source EXCEPT ![t] = None]
    /\ before' = [before EXCEPT ![t] = None]
    /\ catchup_status' = [catchup_status EXCEPT ![t] = None]
    /\ is_healthy' = [is_healthy EXCEPT ![t] = None]
    /\ version' = [version EXCEPT ![t] = None]
    /\ ret' = [ret EXCEPT ![t] = None]
    /\ UNCHANGED <<pushClient, history, collector, now, cycles, metrics_data,
                   pushLocals, server>>

\* `if push_client.enabled:` after update_metrics has returned
push_check(t) ==
    /\ pc[t] = "push_check"
    /\ pc' = [pc EXCEPT ![t] = IF enabled THEN "dict" ELSE AfterPush(t)]
    /\ source' = [source EXCEPT ![t] = None]
    /\ before' = [before EXCEPT ![t] = None]
    /\ catchup_status' = [catchup_status EXCEPT ![t] = None]
    /\ is_healthy' = [is_healthy EXCEPT ![t] = None]
    /\ version' = [version EXCEPT ![t] = None]
    /\ ret' = [ret EXCEPT ![t] = None]
    /\ UNCHANGED <<pushClient, history, collector, now, cycles, metrics_data,
                   pushLocals, server>>

\* push_metrics has returned to its caller, which drops the result
push_return(t) ==
    /\ pc[t] = "pushed"
    /\ pc' = [pc EXCEPT ![t] = AfterPush(t)]
    /\ metrics_data' = [metrics_data EXCEPT ![t] = None]
    /\ attempt' = [attempt EXCEPT ![t] = 0]
    /\ responses' = [responses EXCEPT ![t] = <<>>]
    /\ sleeps' = [sleeps EXCEPT ![t] = <<>>]
    /\ pushRet' = [pushRet EXCEPT ![t] = None]
    /\ history' = [history EXCEPT !.push_returns = @ + 1]
    /\ UNCHANGED <<pushClient, collector, now, cycles, updateLocals, server>>

\* a main() that starts the thread before its initial update_metrics
start_thread_before_collection ==
    /\ pc["main"] = "catchup"
    /\ pc["loop"] = "not_started"
    /\ pc' = [pc EXCEPT !["loop"] = "catchup"]
    /\ UNCHANGED <<pushClient, history, collector, now, cycles, updateLocals, metrics_data,
                   pushLocals, server>>

\* main(): update_thread.start()
start_thread ==
    /\ pc["main"] = "start_thread"
    /\ pc["loop"] = "not_started"
    /\ pc' = [pc EXCEPT !["main"] = "server_start", !["loop"] = "catchup"]
    /\ UNCHANGED <<pushClient, history, collector, now, cycles, updateLocals, metrics_data,
                   pushLocals, server>>

\* main(): MetricsServer(...) and server.start(), up to serve_forever
server_start ==
    /\ pc["main"] = "server_start"
    /\ listening' = TRUE
    /\ pc' = [pc EXCEPT !["main"] = "serve"]
    /\ UNCHANGED <<pushClient, history, collector, now, cycles, updateLocals, metrics_data,
                   pushLocals, obs, obsStamp>>

\* metrics_update_loop leaving its loop after a cycle that failed
loop_sleep_break_on_failure ==
    /\ pc["loop"] = "sleep"
    /\ pc' = [pc EXCEPT !["loop"] = IF registry.rpc_error = 1 THEN "exited" ELSE "catchup"]
    /\ UNCHANGED <<pushClient, history, collector, now, cycles, updateLocals,
                   metrics_data, pushLocals, server>>

\* metrics_update_loop: time.sleep(interval), then the next turn of while True
loop_sleep ==
    /\ pc["loop"] = "sleep"
    /\ pc' = [pc EXCEPT !["loop"] = "catchup"]
    /\ UNCHANGED <<pushClient, history, collector, now, cycles, updateLocals,
                   metrics_data, pushLocals, server>>

(***************************************************************************)
(* http_server.py: MetricsHandler.do_GET for /metrics, run by the main     *)
(* thread inside serve_forever. generate_latest reads one metric after     *)
(* another; nothing keeps update_metrics from running between two reads.   *)
(***************************************************************************)
do_GET ==
    /\ pc["main"] = "serve"
    /\ listening
    /\ pc' = [pc EXCEPT !["main"] = "render"]
    /\ UNCHANGED <<pushClient, history, collector, now, cycles, updateLocals, metrics_data,
                   pushLocals, server>>

\* generate_latest(self.registry): the read of the next metric
generate_latest ==
    /\ pc["main"] = "render"
    /\ LET f == GaugeOrder[Len(obs) + 1] IN
        /\ obs' = Append(obs, registry[f])
        /\ obsStamp' = Append(obsStamp, stamp[f])
    /\ pc' = [pc EXCEPT !["main"] = IF Len(obs) + 1 = Len(GaugeOrder)
                                    THEN "write" ELSE "render"]
    /\ UNCHANGED <<pushClient, history, collector, now, cycles, updateLocals, metrics_data,
                   pushLocals, listening>>

\* self.wfile.write(metrics): the response is sent and the handler returns
wfile_write ==
    /\ pc["main"] = "write"
    /\ obs' = <<>>
    /\ obsStamp' = <<>>
    /\ pc' = [pc EXCEPT !["main"] = "serve"]
    /\ UNCHANGED <<pushClient, history, collector, now, cycles, updateLocals, metrics_data,
                   pushLocals, listening>>

(***************************************************************************)
(* Specifications                                                          *)
(***************************************************************************)
\* the steps of update_metrics other than its first
update_steps(t) ==
    \/ update_err_rpc(t)
    \/ update_err_health(t)
    \/ update_slot_current(t)
    \/ update_slot_cluster(t)
    \/ update_slot_lag(t)
    \/ update_rpc_error(t)
    \/ update_node_health(t)
    \/ update_last_update(t)

\* The agent as a whole: both threads, pull and push. The node answers with
\* one of a few outputs, the remote with one answer of each kind push_metrics
\* tells apart.
AgentRuns ==
    CatchupRuns({<<[k |-> "junk", a |-> 0, b |-> 0]>>,
                 <<[k |-> "compact", a |-> 0, b |-> MaxSlot]>>})
AgentVersions == {"1.18.26"}
AgentResponses == {"200", "401", "URLError"}

Init == InitWith(PushEnvs, {2})

Next ==
    \/ \E t \in Threads : update_catchup(t, AgentRuns, MaxCycles)
    \/ \E t \in Threads : update_steps(t)
    \/ \E t \in Threads : update_node_info(t, AgentVersions)
    \/ \E t \in Threads : push_check(t)
    \/ \E t \in Threads : get_metrics_dict(t, AgentRuns, AgentVersions)
    \/ \E t \in Threads : push_enter(t)
    \/ \E t \in Threads : push_send(t, AgentResponses)
    \/ \E t \in Threads : push_backoff(t)
    \/ \E t \in Threads : push_return(t)
    \/ start_thread
    \/ server_start
    \/ loop_sleep
    \/ do_GET
    \/ generate_latest
    \/ wfile_write

Spec == Init /\ [][Next]_vars

\* The pull side alone: push is not configured. The node answers with one of
\* these outputs, under any exit status, or not at all:
\*   "garbage output"                      "Our validator: slot=0"
\*   "(us:0 them:MaxSlot)"                 "(us:MaxSlot them:0)"
\*   "Validator is behind by MaxSlot slots. Processed slot MaxSlot"
PullTexts ==
    {<<[k |-> "junk", a |-> 0, b |-> 0]>>,
     <<[k |-> "our", a |-> 0, b |-> 0]>>,
     <<[k |-> "compact", a |-> 0, b |-> MaxSlot]>>,
     <<[k |-> "compact", a |-> MaxSlot, b |-> 0]>>,
     <<[k |-> "behind", a |-> MaxSlot, b |-> 0],
       [k |-> "processed", a |-> MaxSlot, b |-> 0]>>}
PullRuns == CatchupRuns(PullTexts)
PullVersions == {"", "1.18.26", "2.0.1"}

InitPull == InitWith({[flag |-> FALSE, url |-> FALSE, key |-> FALSE]}, {3})

NextPull ==
    \/ \E t \in Threads : update_catchup(t, PullRuns, MaxCycles)
    \/ \E t \in Threads : update_steps(t)
    \/ \E t \in Threads : update_node_info(t, PullVersions)
    \/ \E t \in Threads : push_check(t)
    \/ start_thread
    \/ server_start
    \/ loop_sleep
    \/ do_GET
    \/ generate_latest
    \/ wfile_write

SpecPull == InitPull /\ [][NextPull]_vars

\* The push side alone: main() up to the return of its push_metrics call, with
\* every PUSH_RETRY_ATTEMPTS from -1 to MaxRetry and every kind of answer.
\* the parser taken alone: one call of get_catchup_status, on any output of
\* at most MaxTokens fragments
NextParse ==
    /\ cycles = 0
    /\ \E m \in 0..MaxTokens : \E output \in [1..m -> Fragments] :
            update_catchup("main", CatchupRuns({output}), 1)

SpecParse == InitPull /\ [][NextParse]_vars

InitPush == InitWith(PushEnvs, -1..MaxRetry)

NextPush ==
    \/ update_catchup("main", AgentRuns, MaxCycles)
    \/ update_steps("main")
    \/ update_node_info("main", AgentVersions)
    \/ push_check("main")
    \/ get_metrics_dict("main", AgentRuns, AgentVersions)
    \/ push_enter("main")
    \/ push_send("main", Responses)
    \/ push_backoff("main")
    \/ push_return("main")

SpecPush == InitPush /\ [][NextPush]_vars

\* the same, where main() keeps running: urlopen and time.sleep end by themselves
LivePush == InitPush /\ [][NextPush]_vars /\ WF_vars(NextPush)

\* The collection side alone: main() up to the start of the thread, and the
\* loop of the thread. Requests are left out: they read the registry and write
\* nothing a step of these threads reads.
ThreadStep(t) ==
    \/ update_catchup(t, AgentRuns, MaxLoopCycles)
    \/ update_steps(t)
    \/ update_node_info(t, AgentVersions)
    \/ push_check(t)
    \/ get_metrics_dict(t, AgentRuns, AgentVersions)
    \/ push_enter(t)
    \/ push_send(t, AgentResponses)
    \/ push_backoff(t)
    \/ push_return(t)

NextLoop ==
    \/ \E t \in Threads : ThreadStep(t)
    \/ start_thread
    \/ server_start
    \/ loop_sleep

\* Each thread keeps running: every blocking call of a thread ends by itself
\* (the subprocess and urlopen timeouts, the finite sleeps).
Fairness ==
    /\ \A t \in Threads : WF_vars(ThreadStep(t))
    /\ WF_vars(start_thread)
    /\ WF_vars(server_start)
    /\ WF_vars(loop_sleep)

LiveSpec == Init /\ [][NextLoop]_vars /\ Fairness


(***************************************************************************)
(* Properties                                                              *)
(***************************************************************************)
\* update_metrics, run by thread t, has returned and its caller has not gone on
Returned(t) == pc[t] = "push_check" /\ source[t] # None

\* the text matches none of the three formats
Unparseable(output) ==
    /\ ~Matches("compact", output)
    /\ ~(Matches("our", output) /\ Matches("cluster", output))
    /\ ~Matches("processed", output)

\* the catchup source failed, timed out, exited nonzero or gave unparseable text
SourceFailed(run) ==
    \/ run.rc \in {"oserror", "timeout", "nonzero"}
    \/ Unparseable(run.stdout)

\* C1: a scrape sees slot_current and last_update as set by the same cycle
\* (both by the cycle in progress or both by an earlier one), however its
\* reads interleave with update_metrics.
C1_SnapshotAtomicity ==
    pc["main"] = "write" => obsStamp[1] = obsStamp[5]

\* C2: a cycle whose catchup source failed, timed out, exited nonzero or gave
\* unparseable text ends with rpc_error = 1 and node_health = 0, with the
\* slots, the lag and last_update as the cycle found them, and returns False.
C2_DegradedCycle ==
    \A t \in Threads :
        (Returned(t) /\ SourceFailed(The(source[t]))) =>
            /\ registry.rpc_error = 1
            /\ registry.node_health = 0
            /\ \A f \in {"slot_current", "slot_cluster", "slot_lag", "last_update"} :
                   registry[f] = The(before[t])[f]
            /\ ret[t] = Some(FALSE)

\* a degraded cycle of the loop that follows a successful one
C2_Witness ==
    /\ Returned("loop")
    /\ The(source["loop"]).rc = "zero"
    /\ SourceFailed(The(source["loop"]))
    /\ registry.last_update = 1
    /\ registry.slot_current = MaxSlot

\* C3: a cycle whose catchup text parses ends with the slots and the lag of
\* the parsed result, node_health as the health probe of that cycle answered,
\* rpc_error = 0 and last_update at the time of the cycle, and returns True.
C3_SuccessfulCycle ==
    \A t \in Threads :
        (Returned(t) /\ ~SourceFailed(The(source[t]))) =>
            /\ get_catchup_status(The(source[t])) # None
            /\ LET parsed == The(get_catchup_status(The(source[t]))) IN
                /\ registry.slot_current = parsed.local_slot
                /\ registry.slot_cluster = parsed.reference_slot
                /\ registry.slot_lag = parsed.slot_lag
            /\ is_healthy[t] # None
            /\ registry.node_health = (IF The(is_healthy[t]) THEN 1 ELSE 0)
            /\ registry.rpc_error = 0
            /\ registry.last_update = now
            /\ registry.last_update > The(before[t]).last_update
            /\ ret[t] = Some(TRUE)

\* a successful cycle of the loop whose health probe failed, after a degraded one
C3_Witness ==
    /\ Returned("loop")
    /\ ret["loop"] = Some(TRUE)
    /\ is_healthy["loop"] = Some(FALSE)
    /\ The(before["loop"]).rpc_error = 1
    /\ registry.slot_lag = MaxSlot

\* what the claims call an authentication failure: unauthorized or forbidden
AuthFailures == {"401", "403"}
\* the other failures: a non-OK status, a network error, an unexpected exception
NonAuthFailures == {"204", "500", "URLError", "Exception"}

\* C4: an attempt answered with unauthorized or forbidden is the last one:
\* push_metrics has returned False, with no sleep after that attempt.
C4_AuthShortCircuit ==
    \A t \in Threads : \A i \in 1..Len(responses[t]) :
        responses[t][i] \in AuthFailures =>
            /\ i = Len(responses[t])
            /\ pc[t] = "pushed"
            /\ pushRet[t] = Some(FALSE)
            /\ Len(sleeps[t]) = i - 1

\* C5: with retry_attempts = n >= 1 and every attempt failing otherwise than
\* by authentication, push_metrics makes n attempts, sleeps 2^k after attempt
\* k < n and not after attempt n, and returns False.
C5_RetryBackoff ==
    \A t \in Threads :
        (/\ pc[t] = "pushed"
         /\ enabled
         /\ retry_attempts >= 1
         /\ \A i \in 1..Len(responses[t]) : responses[t][i] \in NonAuthFailures) =>
            /\ Len(responses[t]) = retry_attempts
            /\ Len(sleeps[t]) = retry_attempts - 1
            /\ \A k \in 1..(retry_attempts - 1) : sleeps[t][k] = 2 ^ k
            /\ retry_attempts = 3 => sleeps[t] = <<2, 4>>
            /\ pushRet[t] = Some(FALSE)

\* three attempts, each failing in another way
C5_Witness ==
    /\ pc["main"] = "pushed"
    /\ retry_attempts = 3
    /\ responses["main"] = <<"URLError", "204", "Exception">>
    /\ sleeps["main"] = <<2, 4>>
    /\ pushRet["main"] = Some(FALSE)

\* C6: push_metrics returns True exactly when an attempt is answered with
\* status 200, and that attempt is its last: no attempt and no sleep follow.
C6_PushSuccess ==
    \A t \in Threads :
        /\ pushRet[t] = Some(TRUE) <=>
               \E i \in 1..Len(responses[t]) : responses[t][i] = "200"
        /\ \A i \in 1..Len(responses[t]) :
               responses[t][i] = "200" =>
                   /\ i = Len(responses[t])
                   /\ pc[t] = "pushed"
                   /\ Len(sleeps[t]) = i - 1

\* a success on the second attempt, after a network error
C6_Witness ==
    /\ pushRet["main"] = Some(TRUE)
    /\ responses["main"] = <<"URLError", "200">>
    /\ sleeps["main"] = <<2>>

\* C7: without both an endpoint URL and a credential, push is never enabled,
\* no attempt is sent, no backoff sleep is made and no push call returns True.
C7_PushDisabled ==
    ~(api_url /\ api_key) =>
        /\ ~enabled
        /\ \A t \in Threads :
            /\ pc[t] \notin {"send", "backoff"}
            /\ responses[t] = <<>>
            /\ sleeps[t] = <<>>
            /\ pushRet[t] # Some(TRUE)

\* a URL but no credential, and the loop past the push of its first iteration
C7_Witness ==
    /\ api_url
    /\ ~api_key
    /\ pc["loop"] = "sleep"
    /\ cycles = 2

\* the statements of get_metrics_dict and push_metrics
PushStage == {"dict", "push", "send", "backoff", "pushed"}

\* C8: no step of get_metrics_dict or push_metrics changes a metric of the
\* registry, whatever the outcome of the push.
C8_PushLeavesSnapshot ==
    [][\A t \in Threads :
          (pc[t] \in PushStage /\ pc'[t] # pc[t]) => registry' = registry]_vars

\* the push of the loop has failed twice, after a cycle that set the metrics
C8_Witness ==
    /\ pc["loop"] = "pushed"
    /\ pushRet["loop"] = Some(FALSE)
    /\ responses["loop"] = <<"URLError", "URLError">>
    /\ registry.last_update = now - 1
    /\ registry.rpc_error = 0

\* C9: whenever a push is in progress (sending, or sleeping between
\* retries), the server is serving, so a scrape can be accepted and answered.
C9_PushNeverBlocksExposition ==
    (\E t \in Threads : pc[t] \in {"send", "backoff"}) => listening

\* C10: update_metrics always returns a boolean, and after every cycle,
\* whatever it and the push that follows it did, the next cycle starts.
C10_CollectorLiveness ==
    /\ [](\A t \in Threads : Returned(t) => ret[t] \in {Some(TRUE), Some(FALSE)})
    /\ \A n \in 1..(MaxLoopCycles - 1) : (cycles = n) ~> (cycles = n + 1)

\* with push enabled, the loop has started a cycle after an iteration whose
\* cycle failed
C10_Witness ==
    /\ enabled
    /\ pc["loop"] = "cur"
    /\ cycles = 3
    /\ registry.rpc_error = 1

\* C11: the metrics a push carries (slots, lag, health flag, error flag,
\* last-update time) are the values the registry holds from the latest cycle.
C11_PushedDataMatchesSnapshot ==
    \A t \in Threads :
        metrics_data[t] # None =>
            LET m == The(metrics_data[t]) IN
            /\ m.solana_slot_current = registry.slot_current
            /\ m.solana_slot_cluster = registry.slot_cluster
            /\ m.solana_slot_lag = registry.slot_lag
            /\ m.solana_node_health = registry.node_health
            /\ m.solana_rpc_error = registry.rpc_error
            /\ m.solana_metrics_last_update_timestamp = registry.last_update

\* C12: metrics_last_update is written only by a cycle whose catchup output
\* parsed (one that returns True); when a cycle has returned, it is the time
\* of the latest cycle that returned True, and has no sample if there is none.
C12_LastUpdateOnlyOnSuccess ==
    /\ [](\A t \in Threads :
            Returned(t) => registry.last_update = history.success_time)
    /\ [][(registry'.last_update # registry.last_update
           \/ stamp'.last_update # stamp.last_update) =>
                \E t \in Threads :
                    /\ pc[t] = "time"
                    /\ catchup_status[t] # None
                    /\ ~SourceFailed(The(source[t]))
                    /\ registry'.last_update = now]_vars

\* a cycle that failed after one that succeeded has returned
C12_Witness ==
    \E t \in Threads :
        /\ Returned(t)
        /\ ret[t] = Some(FALSE)
        /\ history.success_time # Absent
        /\ registry.last_update = history.success_time
        /\ registry.last_update < now

(***************************************************************************)
(* The parser. A call of get_catchup_status is told by source[t] (what the *)
(* command did) and catchup_status[t] (what the call returned).            *)
(***************************************************************************)
\* the text has a fragment of one of the kinds
Has(kinds, output) == \E i \in 1..Len(output) : output[i].k \in kinds

\* the first fragment of the text that is of one of the kinds
First(kinds, output) ==
    output[CHOOSE i \in 1..Len(output) :
              /\ output[i].k \in kinds
              /\ \A j \in 1..(i - 1) : output[j].k \notin kinds]

OurLabel == {"our", "OUR"}
ClusterLabel == {"cluster", "CLUSTER"}
BothLabels(output) == Has(OurLabel, output) /\ Has(ClusterLabel, output)

\* the command of thread t's call exited with status 0, and what it printed
Printed(t) == source[t] # None /\ The(source[t]).rc = "zero"
Output(t) == The(source[t]).stdout

Lag(l, r) == IF r - l >= 0 THEN r - l ELSE 0

\* C13: a text with the compact pattern (us:A them:B), from a command that
\* exited 0, parses to local_slot A, reference_slot B, slot_lag max(0, B - A);
\* of several such patterns the first one in the text is the one read.
C13_CompactForm ==
    \A t \in Threads :
        Printed(t) /\ Has({"compact"}, Output(t)) =>
            LET m == First({"compact"}, Output(t)) IN
            catchup_status[t] =
                Some([local_slot |-> m.a, reference_slot |-> m.b,
                      slot_lag |-> Lag(m.a, m.b)])

\* a compact pattern with them < us, after other text, was parsed
C13_Witness ==
    \E t \in Threads :
        /\ Printed(t)
        /\ Len(Output(t)) >= 2
        /\ Output(t)[1].k # "compact"
        /\ Output(t)[2].k = "compact"
        /\ Output(t)[2].b < Output(t)[2].a
        /\ catchup_status[t] # None
        /\ The(catchup_status[t]).slot_lag = 0

\* C14: every result the parser returns, whichever format it read, has
\* slot_lag >= 0 and slot_lag = max(0, reference_slot - local_slot): a
\* reference slot behind the local one gives lag 0.
C14_NonNegativeLag ==
    \A t \in Threads :
        catchup_status[t] # None =>
            LET r == The(catchup_status[t]) IN
            /\ r.slot_lag >= 0
            /\ r.slot_lag = Lag(r.local_slot, r.reference_slot)

\* the detailed format was read with the cluster behind the validator
C14_Witness ==
    \E t \in Threads :
        /\ Printed(t)
        /\ ~Has({"compact"}, Output(t))
        /\ BothLabels(Output(t))
        /\ catchup_status[t] # None
        /\ The(catchup_status[t]).reference_slot < The(catchup_status[t]).local_slot
        /\ The(catchup_status[t]).slot_lag = 0

\* C15: a command that exits nonzero (whatever it printed), that times out or
\* fails to run, or whose text matches none of the three formats makes
\* get_catchup_status return None: the call returns, and returns no result.
C15_ParseFailureIsValue ==
    \A t \in Threads :
        source[t] # None =>
            LET run == The(source[t]) IN
            (\/ run.rc \in {"nonzero", "timeout", "oserror"}
             \/ /\ ~Has({"compact"}, run.stdout)
                /\ ~BothLabels(run.stdout)
                /\ ~Has({"processed"}, run.stdout))
            => /\ catchup_status[t] = None
               /\ pc[t] \in {"err_rpc", "err_health", "push_check"}

\* a command that printed a compact pattern and exited nonzero gave None
C15_Witness ==
    \E t \in Threads :
        /\ source[t] # None
        /\ The(source[t]).rc = "nonzero"
        /\ Has({"compact"}, Output(t))
        /\ catchup_status[t] = None

\* what the legacy format alone makes of the text
LegacyReading(output) ==
    IF Has({"processed"}, output)
    THEN LET n == First({"processed"}, output).a
             k == IF Has({"behind"}, output) THEN First({"behind"}, output).a ELSE 0 IN
         Some([local_slot |-> n, reference_slot |-> n + k, slot_lag |-> k])
    ELSE None

\* C16: the formats are tried in the order compact, detailed (both labels),
\* legacy, and the first that matches gives the whole result: both slots come
\* from the compact pattern if there is one, else from the two labels if both
\* are there, else from the legacy patterns; no result mixes formats.
C16_StrategyPriority ==
    \A t \in Threads :
        Printed(t) =>
            LET output == Output(t) IN
            IF Has({"compact"}, output)
            THEN /\ catchup_status[t] # None
                 /\ The(catchup_status[t]).local_slot = First({"compact"}, output).a
                 /\ The(catchup_status[t]).reference_slot = First({"compact"}, output).b
            ELSE IF BothLabels(output)
            THEN /\ catchup_status[t] # None
                 /\ The(catchup_status[t]).local_slot = First(OurLabel, output).a
                 /\ The(catchup_status[t]).reference_slot = First(ClusterLabel, output).a
            ELSE catchup_status[t] = LegacyReading(output)

\* a text with the compact pattern and both labels, all of different slots,
\* was parsed
C16_Witness ==
    \E t \in Threads :
        /\ Printed(t)
        /\ Has({"compact"}, Output(t))
        /\ BothLabels(Output(t))
        /\ First(OurLabel, Output(t)).a # First({"compact"}, Output(t)).a
        /\ First(ClusterLabel, Output(t)).a # First({"compact"}, Output(t)).b
        /\ catchup_status[t] # None

\* C17: without a compact pattern, a text with both labels (in any letter
\* case) giving A and B parses to local_slot A, reference_slot B, slot_lag
\* max(0, B - A); a text with only one of the labels is left to the legacy
\* format, and parses to nothing if that does not match either.
C17_LabeledForm ==
    \A t \in Threads :
        Printed(t) /\ ~Has({"compact"}, Output(t)) =>
            LET output == Output(t) IN
            /\ BothLabels(output) =>
                catchup_status[t] =
                    Some([local_slot |-> First(OurLabel, output).a,
                          reference_slot |-> First(ClusterLabel, output).a,
                          slot_lag |-> Lag(First(OurLabel, output).a,
                                           First(ClusterLabel, output).a)])
            /\ (Has(OurLabel, output) # Has(ClusterLabel, output)) =>
                /\ catchup_status[t] = LegacyReading(output)
                /\ ~Has({"processed"}, output) => catchup_status[t] = None

\* both labels, in upper case, were parsed
C17_Witness ==
    \E t \in Threads :
        /\ Printed(t)
        /\ ~Has({"compact"}, Output(t))
        /\ Has({"OUR"}, Output(t)) /\ ~Has({"our"}, Output(t))
        /\ Has({"CLUSTER"}, Output(t)) /\ ~Has({"cluster"}, Output(t))
        /\ catchup_status[t] # None
        /\ The(catchup_status[t]).slot_lag > 0

\* C18: a text only the legacy format matches, with `Processed slot N`, parses
\* to local_slot N, and to reference_slot N and slot_lag 0 without a
\* `behind by K slots`, to reference_slot N + K and slot_lag K with one.
C18_LegacyForm ==
    \A t \in Threads :
        (/\ Printed(t)
         /\ ~Has({"compact"}, Output(t))
         /\ ~BothLabels(Output(t))
         /\ Has({"processed"}, Output(t))) =>
            LET n == First({"processed"}, Output(t)).a IN
            IF Has({"behind"}, Output(t))
            THEN catchup_status[t] =
                    Some([local_slot |-> n,
                          reference_slot |-> n + First({"behind"}, Output(t)).a,
                          slot_lag |-> First({"behind"}, Output(t)).a])
            ELSE catchup_status[t] =
                    Some([local_slot |-> n, reference_slot |-> n, slot_lag |-> 0])

\* `behind by K slots`, K > 0, and `Processed slot N` were parsed
C18_Witness ==
    \E t \in Threads :
        /\ Printed(t)
        /\ ~Has({"compact"}, Output(t))
        /\ ~BothLabels(Output(t))
        /\ Has({"processed"}, Output(t))
        /\ Has({"behind"}, Output(t))
        /\ catchup_status[t] # None
        /\ The(catchup_status[t]).slot_lag > 0
        /\ The(catchup_status[t]).reference_slot > The(catchup_status[t]).local_slot

\* the cycle thread t has just finished parsed its catchup output but got no
\* version: `solana --version` failed, or printed nothing
NoVersion(t) ==
    /\ Returned(t)
    /\ catchup_status[t] # None
    /\ version[t] # None
    /\ ~Truthy(The(version[t]))

\* C19: a cycle that parses its catchup output and gets no version still
\* returns True and sets slot_current, node_health, rpc_error and
\* metrics_last_update; node_info keeps the version of the latest cycle that
\* got one, and stays without labels if no cycle did.
C19_VersionCarryOver ==
    \A t \in Threads :
        NoVersion(t) =>
            /\ ret[t] = Some(TRUE)
            /\ stamp.slot_current = cycles
            /\ registry.slot_current = The(catchup_status[t]).local_slot
            /\ stamp.node_health = cycles
            /\ registry.node_health = IF The(is_healthy[t]) THEN 1 ELSE 0
            /\ stamp.rpc_error = cycles
            /\ registry.rpc_error = 0
            /\ stamp.last_update = cycles
            /\ registry.last_update = now
            /\ registry.node_info = history.version
            /\ registry.node_info = The(before[t]).node_info

\* a cycle got no version after an earlier cycle had got one
C19_Witness ==
    \E t \in Threads :
        /\ NoVersion(t)
        /\ The(version[t]) = None
        /\ history.version # None
        /\ registry.node_info = history.version
        /\ stamp.node_info < cycles

\* the statements of update_metrics
UpdateStage == {"err_rpc", "err_health", "cur", "cluster", "lag", "rpc", "health",
                "time", "info"}

\* C20: with push enabled, each iteration of the loop calls push_metrics
\* exactly once: after its update_metrics has returned, whatever it returned,
\* and the next update_metrics starts only when that call, with its retries
\* and sleeps, has returned. (Every cycle so far has one push: the startup
\* cycle of main() has its own.)
C20_PushOrdering ==
    /\ [](enabled =>
            \* the cycle of this iteration runs or has returned: no push of it yet
            /\ pc["loop"] \in UpdateStage \cup {"push_check", "dict", "push"} =>
                    /\ history.push_calls = cycles - 1
                    /\ history.push_returns = cycles - 1
            \* its one push is in progress
            /\ pc["loop"] \in {"send", "backoff", "pushed"} =>
                    /\ history.push_calls = cycles
                    /\ history.push_returns = cycles - 1
            \* the iteration is over: its push was called once and has returned
            /\ pc["loop"] \in {"sleep", "catchup"} =>
                    /\ history.push_calls = cycles
                    /\ history.push_returns = cycles)
    /\ [][enabled /\ history'.push_calls # history.push_calls =>
            /\ history'.push_calls = cycles
            /\ \A t \in Threads : pc[t] \notin UpdateStage \cup {"push_check"}]_vars
    /\ [][enabled /\ cycles' # cycles => history.push_returns = cycles]_vars

\* the loop's push, after a cycle of its own that returned False, has retried
\* and returned to the loop
C20_Witness ==
    /\ enabled
    /\ pc["loop"] = "pushed"
    /\ cycles = 2
    /\ registry.rpc_error = 1
    /\ stamp.rpc_error = cycles
    /\ Len(sleeps["loop"]) >= 1
    /\ history.push_calls = 2
    /\ history.push_returns = 1

\* the statements of MetricsHandler.do_GET, and the wait for a request
RequestStage == {"serve", "render", "write"}

\* C21: only update_metrics changes the registry; no two calls of
\* update_metrics are ever in progress together, the one main() makes at
\* startup and those of the loop included; no step of a request handler
\* changes the registry.
C21_SingleWriter ==
    /\ [](Cardinality({t \in Threads : pc[t] \in UpdateStage}) <= 1)
    /\ [](pc["loop"] # "not_started" => pc["main"] \notin UpdateStage \cup {"catchup"})
    /\ [][collector' # collector =>
            \E t \in Threads :
                /\ pc[t] \in UpdateStage
                /\ pc'[t] # pc[t]
                /\ pc'[t] \in UpdateStage \cup {"push_check"}]_vars
    /\ [][(pc["main"] \in RequestStage /\ (pc'["main"] # pc["main"] \/ obs' # obs)) =>
            collector' = collector]_vars

\* a request is being answered while a cycle of the loop, which has set a
\* gauge, is in progress
C21_Witness ==
    /\ pc["main"] = "render"
    /\ Len(obs) >= 1
    /\ pc["loop"] \in UpdateStage
    /\ cycles = 2
    /\ stamp.slot_current = cycles

\* C22: when update_metrics has returned, after any cycles before it, a
\* registry with rpc_error 1 has node_health 0.
C22_ErrorImpliesUnhealthy ==
    \A t \in Threads :
        Returned(t) => (registry.rpc_error = 1 => registry.node_health = 0)

\* a cycle that failed has returned, after a cycle that had found the node
\* healthy
C22_Witness ==
    \E t \in Threads :
        /\ Returned(t)
        /\ ret[t] = Some(FALSE)
        /\ The(before[t]).node_health = 1
        /\ The(before[t]).rpc_error = 0
        /\ registry.rpc_error = 1
        /\ registry.node_health = 0

\* C23: with push enabled and PUSH_RETRY_ATTEMPTS zero or negative,
\* push_metrics sends nothing, sleeps never and returns False; whatever the
\* count and whatever the server answers, it makes at most
\* max(0, retry_attempts) attempts, and it returns.
C23_ZeroAttempts ==
    /\ [](\A t \in Threads :
            /\ Len(responses[t]) <= Max(0, retry_attempts)
            /\ Len(sleeps[t]) <= Max(0, retry_attempts)
            /\ (enabled /\ retry_attempts <= 0) =>
                    /\ pc[t] \notin {"send", "backoff"}
                    /\ responses[t] = <<>>
                    /\ sleeps[t] = <<>>
                    /\ pc[t] = "pushed" => pushRet[t] = Some(FALSE))
    /\ (pc["main"] = "push") ~> (pc["main"] = "pushed")
    /\ (pc["main"] = "pushed") ~> (pc["main"] = "start_thread")

\* push_metrics has returned False with a count below 1, having sent nothing
C23_Witness ==
    /\ enabled
    /\ retry_attempts <= 0
    /\ pc["main"] = "pushed"
    /\ pushRet["main"] = Some(FALSE)
    /\ responses["main"] = <<>>
    /\ sleeps["main"] = <<>>

====
